---- MODULE Spec2Model ----
\* Model of src/compiletest/errors.rs: load_errors and parse_expected.
\* A line of text is a sequence of one-character strings (all ASCII, so a
\* byte offset is a character offset).
EXTENDS Integers, Sequences, FiniteSets, TLC

VARIABLES cfg, overflow_checks, lines, last_nonfollow_error, out, matched, status

vars == <<cfg, overflow_checks, lines, last_nonfollow_error, out, matched, status>>

\* ------------------------------------------------------------------ bounds
MaxLines == 4        \* lines of a scanned file (Spec)
ScanCarets == 3      \* longest caret run in the lines of Spec
MaxParseLines == 2   \* lines of a scanned file (SpecParse)
ParseCarets == 3     \* longest caret run in the lines of SpecParse
WordBits == 8        \* modelled width of usize (the targets have 32 or 64)

\* ------------------------------------------------------------- Option<T>
None == [some |-> FALSE, v |-> 0]
NoCfg == [some |-> FALSE, v |-> <<>>]
Some(x) == [some |-> TRUE, v |-> x]

\* ------------------------------------------------------------ characters
is_whitespace(c) == c \in {" ", "\t"}

to_lowercase(c) ==
  CASE c = "E" -> "e"
    [] c = "R" -> "r"
    [] OTHER -> c

\* ----------------------------------------------------------- str helpers
\* line[i..] with a 0-based offset i <= len
SliceFrom(s, i) == SubSeq(s, i + 1, Len(s))

RECURSIVE skip_while_ws(_)
skip_while_ws(s) ==
  IF s # <<>> /\ is_whitespace(Head(s)) THEN skip_while_ws(Tail(s)) ELSE s

RECURSIVE skip_while_nonws(_)
skip_while_nonws(s) ==
  IF s # <<>> /\ ~is_whitespace(Head(s)) THEN skip_while_nonws(Tail(s)) ELSE s

RECURSIVE take_while_nonws(_)
take_while_nonws(s) ==
  IF s # <<>> /\ ~is_whitespace(Head(s))
  THEN <<Head(s)>> \o take_while_nonws(Tail(s))
  ELSE <<>>

RECURSIVE take_while_caret_count(_)
take_while_caret_count(s) ==
  IF s # <<>> /\ Head(s) = "^" THEN 1 + take_while_caret_count(Tail(s)) ELSE 0

RECURSIVE trim_end(_)
trim_end(s) ==
  IF s # <<>> /\ is_whitespace(s[Len(s)])
  THEN trim_end(SubSeq(s, 1, Len(s) - 1))
  ELSE s

trim(s) == trim_end(skip_while_ws(s))

\* variant: the last occurrence (rfind)
RECURSIVE rfind_from(_, _, _)
rfind_from(line, tag, i) ==
  IF i < 0 THEN -1
  ELSE IF SubSeq(line, i + 1, i + Len(tag)) = tag THEN i
  ELSE rfind_from(line, tag, i - 1)

rfind(line, tag) == rfind_from(line, tag, Len(line) - Len(tag))

\* line.find(tag): 0-based offset of the first occurrence, -1 for None
RECURSIVE find_from(_, _, _)
find_from(line, tag, i) ==
  IF i + Len(tag) > Len(line) THEN -1
  ELSE IF SubSeq(line, i + 1, i + Len(tag)) = tag THEN i
  ELSE find_from(line, tag, i + 1)

find(line, tag) == find_from(line, tag, 0)

\* variant: the configuration is ignored
Tag_IgnoreCfg(c) == <<"/", "/", "~">>

\* ---------------------------------------------------------- load_errors
\* let tag = match cfg { Some(rev) => format!("//[{}]~", rev), None => "//~" }
Tag(c) ==
  IF c.some THEN <<"/", "/", "[">> \o c.v \o <<"]", "~">>
  ELSE <<"/", "/", "~">>

\* -------------------------------------------------------- parse_expected
ThisLine == [tag |-> "ThisLine", arg |-> 0]
AdjustBackward(n) == [tag |-> "AdjustBackward", arg |-> n]
FollowPrevious(n) == [tag |-> "FollowPrevious", arg |-> n]

ExpectedError(ln, k, m) == [line_num |-> ln, kind |-> k, msg |-> m]

RetNone == [res |-> "None", which |-> ThisLine, error |-> ExpectedError(0, <<>>, <<>>)]
RetPanic == [res |-> "Panic", which |-> ThisLine, error |-> ExpectedError(0, <<>>, <<>>)]
RetSome(w, e) == [res |-> "Some", which |-> w, error |-> e]

\* line.char_at(start + tag.len()) == '|' ; reading at the end of the line
\* is out of bounds
FollowMarker(line, p) ==
  IF p >= Len(line) THEN "oob"
  ELSE IF line[p + 1] = "|" THEN "follow" ELSE "plain"

\* (follow, adjusts): adjusts is fixed at 0 on the follow branch
Adjusts(line, p, follow) ==
  IF follow THEN 0 ELSE take_while_caret_count(SliceFrom(line, p))

\* variant: the token is kept as written
Kind_NoLowercase(rest) == take_while_nonws(skip_while_ws(rest))

Kind(rest) ==
  LET tok == take_while_nonws(skip_while_ws(rest))
  IN [i \in 1..Len(tok) |-> to_lowercase(tok[i])]

Msg(rest) == trim(skip_while_nonws(skip_while_ws(rest)))

\* variant: unwrap_or(0) in place of expect
ExpectAnchor_Default(last) == [ok |-> TRUE, v |-> IF last.some THEN last.v ELSE 0]

\* last_nonfollow_error.expect(...)
ExpectAnchor(last) ==
  IF last.some THEN [ok |-> TRUE, v |-> last.v] ELSE [ok |-> FALSE, v |-> 0]

\* variant: the 0-based index of the line is used
SubUsize_ZeroBased(line_num, adjusts, checks) ==
  IF adjusts < line_num THEN [ok |-> TRUE, v |-> line_num - 1 - adjusts]
  ELSE IF checks THEN [ok |-> FALSE, v |-> 0]
  ELSE [ok |-> TRUE, v |-> (line_num - 1 - adjusts) % (2 ^ WordBits)]

\* variant: the adjustment is added
SubUsize_Forward(line_num, adjusts, checks) == [ok |-> TRUE, v |-> line_num + adjusts]

\* line_num - adjusts on usize: an underflow panics when the build checks
\* arithmetic overflow and wraps when it does not
SubUsize(line_num, adjusts, checks) ==
  IF adjusts <= line_num THEN [ok |-> TRUE, v |-> line_num - adjusts]
  ELSE IF checks THEN [ok |-> FALSE, v |-> 0]
  ELSE [ok |-> TRUE, v |-> (line_num - adjusts) % (2 ^ WordBits)]

parse_expected(last, line_num, line, tag, checks) ==
  LET start == find(line, tag) IN
  IF start = -1 THEN RetNone
  ELSE
    LET p == start + Len(tag)
        fm == FollowMarker(line, p)
    IN
    IF fm = "oob" THEN RetPanic
    ELSE
      LET follow == (fm = "follow")
          adjusts == Adjusts(line, p, follow)
          kind_start == p + adjusts + (IF follow THEN 1 ELSE 0)
          rest == SliceFrom(line, kind_start)
          kind == Kind(rest)
          msg == Msg(rest)
      IN
      IF follow
      THEN
        \* assert!(adjusts == 0, ...)
        IF adjusts # 0 THEN RetPanic
        ELSE
          LET a == ExpectAnchor(last) IN
          IF ~a.ok THEN RetPanic
          ELSE RetSome(FollowPrevious(a.v), ExpectedError(a.v, kind, msg))
      ELSE
        LET which == IF adjusts > 0 THEN AdjustBackward(adjusts) ELSE ThisLine
            d == SubUsize(line_num, adjusts, checks)
        IN
        IF ~d.ok THEN RetPanic
        ELSE RetSome(which, ExpectedError(d.v, kind, msg))

\* variant: the anchor is the physical line of the annotation
NewAnchor_Physical(which, last, error, physical) ==
  IF which.tag = "FollowPrevious" THEN last ELSE Some(physical)

\* the .map closure: FollowPrevious(_) => {}, _ => last = Some(error.line_num)
NewAnchor(which, last, error, physical) ==
  IF which.tag = "FollowPrevious" THEN last ELSE Some(error.line_num)

\* ------------------------------------------------------------ the inputs
Carets(n) == [i \in 1..n |-> "^"]

Plain == <<"/", "/", "~">>
TagA == <<"/", "/", "[", "a", "]", "~">>
TagB == <<"/", "/", "[", "b", "]", "~">>
BodyEx == <<" ", "E", " ", "x">>

FileLines ==
  { <<"x">>,
    Plain \o BodyEx,
    Plain \o <<"|">> \o BodyEx,
    TagA \o BodyEx,
    TagA \o <<"|">> \o BodyEx,
    TagB \o BodyEx,
    <<"x", " ">> \o Plain \o <<" ", "E", " ">> \o Plain \o <<"^", " ", "x">> }
  \cup { Plain \o Carets(n) \o BodyEx : n \in 1..ScanCarets }

Markers == { <<>>, <<"|">>, <<"|", "^">> } \cup { Carets(n) : n \in 1..ParseCarets }

Bodies ==
  { <<>>,
    <<" ">>,
    <<"E">>,
    <<" ", "E", "r", "R", " ", " ", "x", " ", "y", " ">>,
    <<"\t", "e", "\t">> }

ParseLines ==
  { Plain \o m \o b : m \in Markers, b \in Bodies }
  \cup { TagA, TagA \o <<"|", "^">> \o BodyEx, <<"x", " ">> \o TagA \o <<"^">> \o BodyEx }

Cfgs == { NoCfg, Some(<<"a">>) }

\* ------------------------------------------------------------- the model
Init ==
  /\ cfg \in Cfgs
  /\ overflow_checks \in BOOLEAN
  /\ lines = <<>>
  /\ last_nonfollow_error = None
  /\ out = <<>>
  /\ matched = <<>>
  /\ status = "scanning"

\* one turn of rdr.lines().enumerate().filter_map(...): the line is parsed,
\* a match updates the anchor and is pushed on the collected vector
ReadLine(line) ==
  /\ status = "scanning"
  /\ LET line_num == Len(lines)
         r == parse_expected(last_nonfollow_error, line_num + 1, line,
                             Tag(cfg), overflow_checks)
     IN
     /\ lines' = Append(lines, line)
     /\ CASE r.res = "None" ->
               /\ UNCHANGED <<last_nonfollow_error, out, matched, status>>
          [] r.res = "Some" ->
               /\ last_nonfollow_error' =
                    NewAnchor(r.which, last_nonfollow_error, r.error, line_num + 1)
               /\ out' = Append(out, r.error)
               /\ matched' = Append(matched, [physical |-> line_num + 1, which |-> r.which])
               /\ status' = status
          [] OTHER ->
               \* a panic unwinds load_errors: the vector is dropped
               /\ status' = "panicked"
               /\ out' = <<>>
               /\ matched' = <<>>
               /\ UNCHANGED last_nonfollow_error
  /\ UNCHANGED <<cfg, overflow_checks>>

\* end of the file: .collect() returns the vector
Collect ==
  /\ status = "scanning"
  /\ status' = "returned"
  /\ UNCHANGED <<cfg, overflow_checks, lines, last_nonfollow_error, out, matched>>

ScanStep == \E line \in FileLines : Len(lines) < MaxLines /\ ReadLine(line)

ParseStep == \E line \in ParseLines : Len(lines) < MaxParseLines /\ ReadLine(line)

Next == ScanStep \/ Collect

Spec == Init /\ [][Next]_vars

NextParse == ParseStep \/ Collect

SpecParse == Init /\ [][NextParse]_vars

\* ------------------------------------------- vocabulary of the properties
\* These describe a line by its text alone, without running the parser.
Trigger == IF cfg.some THEN <<"/", "/", "[">> \o cfg.v \o <<"]", "~">> ELSE <<"/", "/", "~">>

OccursAt(line, t, i) == i + Len(t) <= Len(line) /\ SubSeq(line, i + 1, i + Len(t)) = t

Contains(line, t) == \E i \in 0..Len(line) : OccursAt(line, t, i)

\* offset just past the first occurrence of the trigger
AfterTrigger(line) ==
  LET i == CHOOSE i \in 0..Len(line) :
             OccursAt(line, Trigger, i) /\ \A j \in 0..(i - 1) : ~OccursAt(line, Trigger, j)
  IN i + Len(Trigger)

IsFollowLine(line) ==
  /\ Contains(line, Trigger)
  /\ AfterTrigger(line) < Len(line)
  /\ line[AfterTrigger(line) + 1] = "|"

IsPlainLine(line) == Contains(line, Trigger) /\ ~IsFollowLine(line)

\* length of the run of ^ right after the first trigger
CaretRun(line) ==
  LET p == AfterTrigger(line) IN
  CHOOSE n \in 0..(Len(line) - p) :
    /\ \A i \in 1..n : line[p + i] = "^"
    /\ (p + n = Len(line) \/ line[p + n + 1] # "^")

Reading == status = "scanning" /\ lines' # lines
NewLine == lines'[Len(lines')]
NewLineNum == Len(lines')
Emitted == status' = "scanning" /\ Len(out') = Len(out) + 1
NewRecord == out'[Len(out')]

\* the source line of the k-th record
LineOf(k) == lines[matched[k].physical]

\* --------------------------------------------------------------- C1
\* C1: in a scan that has not aborted, every record of a follow line carries
\* the line_num of the nearest preceding record that is not of a follow
\* line, however many follow records lie in between and also when that
\* anchor record came from a caret line.
C1_FollowResolvesToAnchor ==
  status # "panicked" =>
    \A k \in 1..Len(out) :
      IsFollowLine(LineOf(k)) =>
        \E j \in 1..(k - 1) :
          /\ ~IsFollowLine(LineOf(j))
          /\ \A i \in (j + 1)..(k - 1) : IsFollowLine(LineOf(i))
          /\ out[k].line_num = out[j].line_num

C1_Witness ==
  /\ status = "returned"
  /\ \E j \in 1..Len(out) :
       /\ ~IsFollowLine(LineOf(j))
       /\ CaretRun(LineOf(j)) > 0
       /\ out[j].line_num # matched[j].physical
       /\ j + 2 <= Len(out)
       /\ IsFollowLine(LineOf(j + 1))
       /\ IsFollowLine(LineOf(j + 2))
       /\ out[j + 2].line_num = out[j].line_num

\* --------------------------------------------------------------- C4
\* C4: reading a follow line while no non-follow annotation was matched on
\* an earlier line aborts the scan, and an aborted scan never returns a
\* vector; reading a follow line after such a match emits a record.
C4_FollowNeedsAnchor ==
  [][ /\ (Reading /\ IsFollowLine(NewLine)) =>
           IF \E i \in 1..Len(lines) : IsPlainLine(lines[i])
           THEN Emitted
           ELSE status' = "panicked" /\ out' = <<>>
      /\ (status = "panicked" => status' = "panicked" /\ out' = <<>>)
    ]_vars

C4_Witness ==
  /\ status = "panicked"
  /\ Len(lines) >= 2
  /\ IsFollowLine(lines[Len(lines)])
  /\ \A i \in 1..(Len(lines) - 1) : ~IsPlainLine(lines[i])

\* --------------------------------------------------------------- C5
\* C5: a record of a non-follow line at physical line L whose trigger is
\* followed by n carets, n < L, has line_num = L - n.
C5_AdjustBackward ==
  \A k \in 1..Len(out) :
    LET L == matched[k].physical
        n == CaretRun(LineOf(k))
    IN (IsPlainLine(LineOf(k)) /\ n < L) => out[k].line_num = L - n

C5_Witness ==
  \E k \in 1..Len(out) :
    /\ IsPlainLine(LineOf(k))
    /\ CaretRun(LineOf(k)) = 3
    /\ matched[k].physical = 4
    /\ out[k].line_num = 1

\* --------------------------------------------------------------- C6
\* C6: a returned vector has exactly one record per line that contains the
\* trigger, none for any other line, in the order of the lines, and the
\* record of a line is read at the first occurrence of the trigger.
C6_OneRecordPerTriggerLine ==
  status = "returned" =>
    /\ Len(out) = Cardinality({ i \in 1..Len(lines) : Contains(lines[i], Trigger) })
    /\ \A k \in 1..Len(out) :
         /\ matched[k].physical \in 1..Len(lines)
         /\ Contains(LineOf(k), Trigger)
         /\ (k > 1 => matched[k - 1].physical < matched[k].physical)
         /\ (IsPlainLine(LineOf(k)) /\ CaretRun(LineOf(k)) = 0) =>
              out[k].line_num = matched[k].physical

C6_Witness ==
  /\ status = "returned"
  /\ Len(out) >= 2
  /\ Len(out) < Len(lines)
  /\ \E k \in 1..Len(out) :
       \E i, j \in 0..Len(LineOf(k)) :
         i < j /\ OccursAt(LineOf(k), Trigger, i) /\ OccursAt(LineOf(k), Trigger, j)

ShortCaretRuns ==
  \A i \in 1..Len(lines) : IsPlainLine(lines[i]) => CaretRun(lines[i]) < i

C10_LineNumInRange ==
  (status # "panicked" /\ ShortCaretRuns) =>
    /\ \A k \in 1..Len(out) :
         /\ 1 <= out[k].line_num
         /\ out[k].line_num <= matched[k].physical
         /\ IsFollowLine(LineOf(k)) => out[k].line_num < matched[k].physical
    /\ last_nonfollow_error.some => last_nonfollow_error.v <= Len(lines)

C10_Witness ==
  /\ status = "returned"
  /\ ShortCaretRuns
  /\ Len(out) >= 3
  /\ \E k \in 1..Len(out) : IsFollowLine(LineOf(k))
  /\ \E k \in 1..Len(out) : IsPlainLine(LineOf(k)) /\ CaretRun(LineOf(k)) >= 2

\* --------------------------------------------------------------- C2
\* C2: reading a line whose trigger is followed by | and then at least one
\* ^ aborts the scan, whatever the anchor is.
C2_FollowWithCaretAborts ==
  [][ ( /\ Reading
        /\ IsFollowLine(NewLine)
        /\ AfterTrigger(NewLine) + 1 < Len(NewLine)
        /\ NewLine[AfterTrigger(NewLine) + 2] = "^" )
      => status' = "panicked"
    ]_vars

\* --------------------------------------------------------------- C3
\* C3: reading a line that ends with the trigger does not abort and emits
\* the record (own line number, kind "", msg "").
C3_BareTriggerEmitsEmpty ==
  [][ ( /\ Reading
        /\ Contains(NewLine, Trigger)
        /\ AfterTrigger(NewLine) = Len(NewLine) )
      => /\ Emitted
         /\ NewRecord = [line_num |-> NewLineNum, kind |-> <<>>, msg |-> <<>>]
    ]_vars

\* --------------------------------------------------------------- C8
\* C8: reading a non-follow line at physical line L with n >= L carets does
\* not abort: a record whose line_num is L - n (as the machine word holds
\* it) is emitted and becomes the anchor.
C8_EarlyAdjustNotChecked ==
  [][ ( /\ Reading
        /\ IsPlainLine(NewLine)
        /\ AfterTrigger(NewLine) < Len(NewLine)
        /\ CaretRun(NewLine) >= NewLineNum )
      => /\ Emitted
         /\ NewRecord.line_num \in
              { NewLineNum - CaretRun(NewLine),
                (NewLineNum - CaretRun(NewLine)) % (2 ^ WordBits) }
         /\ last_nonfollow_error' = Some(NewRecord.line_num)
    ]_vars

\* --------------------------------------------------------------- C9
\* C9: for every record, with t the text after the trigger and its | or its
\* caret run: t = (whitespace) (token) (tail) where the token has no
\* whitespace and is as long as possible; kind is the token lower-cased and
\* msg is the tail without its leading and trailing whitespace; neither
\* begins or ends with whitespace.
TextOf(line) ==
  LET p == AfterTrigger(line)
      q == IF IsFollowLine(line) THEN p + 1 ELSE p + CaretRun(line)
  IN SubSeq(line, q + 1, Len(line))

NoOuterSpace(s) == s = <<>> \/ (~is_whitespace(s[1]) /\ ~is_whitespace(s[Len(s)]))

\* s is t without leading and trailing whitespace
Stripped(t, s) ==
  /\ NoOuterSpace(s)
  /\ \E a \in 0..Len(t) :
       /\ a + Len(s) <= Len(t)
       /\ SubSeq(t, a + 1, a + Len(s)) = s
       /\ \A i \in (1..a) \cup ((a + Len(s) + 1)..Len(t)) : is_whitespace(t[i])

C9_KindAndMsg ==
  \A k \in 1..Len(out) :
    LET t == TextOf(LineOf(k)) IN
    /\ NoOuterSpace(out[k].kind)
    /\ NoOuterSpace(out[k].msg)
    /\ \E a \in 0..Len(t) : \E b \in a..Len(t) :
         /\ \A i \in 1..a : is_whitespace(t[i])
         /\ \A i \in (a + 1)..b : ~is_whitespace(t[i])
         /\ (a < Len(t) => ~is_whitespace(t[a + 1]))
         /\ (b < Len(t) => is_whitespace(t[b + 1]))
         /\ Len(out[k].kind) = b - a
         /\ \A i \in 1..(b - a) :
              out[k].kind[i] = (IF t[a + i] \in {"E", "R"}
                                THEN (IF t[a + i] = "E" THEN "e" ELSE "r")
                                ELSE t[a + i])
         /\ Stripped(SubSeq(t, b + 1, Len(t)), out[k].msg)

C9_Witness ==
  \E k \in 1..Len(out) :
    /\ out[k].kind = <<"e", "r", "r">>
    /\ out[k].msg = <<"x", " ", "y">>
    /\ Len(TextOf(LineOf(k))) > 7

====
